---- MODULE Spec2Model ----
(***************************************************************************)
(* Ingestion orchestration core of OneLiteFeatherRAGBot.                   *)
(*                                                                         *)
(*   Spec       the Postgres job repository (rag_core/db/postgres_jobs.py) *)
(*              driven by the front-end and by worker loops                *)
(*              (rag_cli/run_queue.py)                                     *)
(*   SpecIndex  one pass of RAGService.index_items / update_checksums      *)
(*              (rag_core/rag_service.py, rag_core/checksums.py)           *)
(*   SpecPrune  one prune job of process_one (rag_cli/run_queue.py)        *)
(*   SpecConc   the repository under several workers on one queue          *)
(*   SpecFetch  concurrent fetch_and_start calls, one per worker           *)
(*   SpecRepo   the repository under any sequence of its operations        *)
(*   SpecProgress  update_progress with every choice of arguments          *)
(*   SpecStartup   service startup followed by the service's passes        *)
(*   SpecInline    inline-sources jobs from enqueue to their end           *)
(*   SpecChunk     the chunking stage over one wrapped source              *)
(*   SpecAdapters  items of the source adapters ingested by processes      *)
(*   SpecArtifact  put_manifest / get_manifest on one artifact store       *)
(*   SpecRabbit    the RabbitMQ job repository (rag_core/db/rabbitmq_jobs) *)
(***************************************************************************)
EXTENDS Integers, Sequences, FiniteSets, TLC

VARIABLES
    jobs,       \* the rag_jobs table: a sequence of rows, row i has id i
    wk,         \* per worker: position in process_one and the job in hand
    hist,       \* history per job id, kept for the properties only
    vtable,     \* whether the vector table data_<table_name> exists
    cf,         \* the deployment: live workers, their queue types, what is enqueued
    ix,         \* state of one index_items / update_checksums pass
    pr,         \* state of one prune job
    st          \* state of one ingestion stage: a chunking stream, an artifact store

vars == <<jobs, wk, hist, vtable, cf, ix, pr, st>>

(***************************************************************************)
(* Bounds of the model.                                                    *)
(***************************************************************************)
MaxJobs == 1        \* jobs enqueued under Spec
MaxRetries == 1     \* successful retries per job
MaxItems == 1       \* items a job's source yields under Spec
MaxConcJobs == 2    \* jobs enqueued under SpecConc
NumWorkers == 2     \* worker processes under SpecConc
MaxRows == 2        \* vector rows before a prune job, items of its manifest
MaxPasses == 2      \* index_items / update_checksums passes under SpecIndex
MaxIxItems == 2     \* items given to one pass
MaxRepoJobs == 3    \* rows of the table under SpecFetch

Workers == cf.workers

(***************************************************************************)
(* Data model: rag_core/db/base.py Job, rag_jobs columns.                  *)
(***************************************************************************)
NULL == "NULL"
NOW == "NOW"
None == <<>>
Some(v) == <<v>>

JobTypes == {"ingest", "checksum_update", "prune"}
Statuses == {"pending", "processing", "completed", "failed", "canceled"}
Terminal == {"completed", "failed", "canceled"}

\* JobRepoFactory._create_repo: the Postgres backend ignores the queue name
\* and builds PostgresJobRepository(db) on its default table.
RepoTable(queueType) == "rag_jobs"

\* The worker started with --queue-type (main, build_job_repo).
WorkerQueueType(w) == cf.queue[w]

JobIds == DOMAIN jobs

\* A row is locked while a fetch_and_start transaction has selected it
\* FOR UPDATE and has not committed yet.
Locked(j) == \E w \in Workers : wk[w].pc = "fetching" /\ wk[w].job = j

\* The mutant: a plain SELECT that does not skip rows locked by another fetch.
FetchCandidatesNoSkipLocked(tbl) ==
    {j \in JobIds : jobs[j].tbl = tbl /\ jobs[j].status = "pending"}

\* The mutant: the SELECT has no WHERE status='pending'.
FetchCandidatesAnyStatus(tbl) ==
    {j \in JobIds : jobs[j].tbl = tbl /\ ~Locked(j)}

\* WITH j AS (SELECT id ... WHERE status='pending' ORDER BY id LIMIT 1
\*            FOR UPDATE SKIP LOCKED)
FetchCandidates(tbl) ==
    {j \in JobIds : jobs[j].tbl = tbl /\ jobs[j].status = "pending" /\ ~Locked(j)}

\* The mutant: ORDER BY id DESC.
MaxOf(S) == CHOOSE x \in S : \A y \in S : x >= y

\* ORDER BY id LIMIT 1
MinOf(S) == CHOOSE x \in S : \A y \in S : x <= y

Idle == [pc |-> "idle", job |-> 0, todo |-> <<>>, calls |-> 0]

(***************************************************************************)
(* Repository operations (PostgresJobRepository), as row updates.          *)
(***************************************************************************)
\* enqueue: INSERT ... status pending, attempts 0.
NewRow(queueType, jobType, artifact) ==
    [tbl |-> RepoTable(queueType), queue |-> queueType,
     type |-> jobType, artifact |-> artifact,
     status |-> "pending", attempts |-> 0, error |-> NULL,
     started_at |-> NULL, finished_at |-> NULL,
     progress_done |-> None, progress_total |-> None, progress_note |-> NULL]

\* The mutant: the UPDATE does not count the attempt.
StartRowKeepsAttempts(r) ==
    [r EXCEPT !.status = "processing", !.started_at = NOW]

\* fetch_and_start's UPDATE: SET status='processing', started_at=NOW(), attempts+1
StartRow(r) ==
    [r EXCEPT !.status = "processing", !.started_at = NOW, !.attempts = @ + 1]

\* complete: UPDATE ... SET status='completed', finished_at=NOW(), error=NULL WHERE id=:i
CompleteRow(r) ==
    [r EXCEPT !.status = "completed", !.finished_at = NOW, !.error = NULL]

\* fail: UPDATE ... SET status='failed', finished_at=NOW(), error=:e WHERE id=:i
FailRow(r, e) ==
    [r EXCEPT !.status = "failed", !.finished_at = NOW, !.error = e]

\* retry: ... WHERE id=:i AND status IN ('failed','canceled')
RetryOk(r) == r.status \in {"failed", "canceled"}

\* The mutant: retry leaves finished_at as it is.
RetryRowKeepsFinishedAt(r) ==
    IF RetryOk(r)
    THEN [r EXCEPT !.status = "pending", !.started_at = NULL, !.error = NULL]
    ELSE r

\* The mutant: retry leaves started_at as it is.
RetryRowKeepsStartedAt(r) ==
    IF RetryOk(r)
    THEN [r EXCEPT !.status = "pending", !.finished_at = NULL, !.error = NULL]
    ELSE r

\* The mutant: retry also resets the attempts.
RetryRowResetsAttempts(r) ==
    IF RetryOk(r)
    THEN [r EXCEPT !.status = "pending", !.started_at = NULL,
                   !.finished_at = NULL, !.error = NULL, !.attempts = 0]
    ELSE r

\* The mutant: retry leaves the error as it is.
RetryRowKeepsError(r) ==
    IF RetryOk(r)
    THEN [r EXCEPT !.status = "pending", !.started_at = NULL,
                   !.finished_at = NULL]
    ELSE r
RetryRow(r) ==
    IF RetryOk(r)
    THEN [r EXCEPT !.status = "pending", !.started_at = NULL,
                   !.finished_at = NULL, !.error = NULL]
    ELSE r

\* cancel: ... error=COALESCE(error,'canceled') WHERE id=:i AND status IN ('pending','processing')
CancelOk(r) == r.status \in {"pending", "processing"}

\* The mutant: cancel has no status guard.
CancelRowAnyStatus(r) ==
    [r EXCEPT !.status = "canceled", !.finished_at = NOW,
              !.error = IF @ = NULL THEN "canceled" ELSE @]
CancelRow(r) ==
    IF CancelOk(r)
    THEN [r EXCEPT !.status = "canceled", !.finished_at = NOW,
                   !.error = IF @ = NULL THEN "canceled" ELSE @]
    ELSE r

\* The mutant: every progress column is set, an omitted argument to null.
ProgressRowSetsAll(r, p) ==
    [r EXCEPT !.progress_done = p.done, !.progress_total = p.total,
              !.progress_note = p.note]

\* update_progress: only the given fields are set.
ProgressRow(r, p) ==
    [r EXCEPT !.progress_done = IF p.done = None THEN @ ELSE p.done,
              !.progress_total = IF p.total = None THEN @ ELSE p.total,
              !.progress_note = IF p.note = NULL THEN @ ELSE p.note]

P(stage, done, total, note) ==
    [stage |-> stage, done |-> done, total |-> total, note |-> note]

(***************************************************************************)
(* The progress calls a job makes, in program order.                       *)
(*   n: items scanned, k: items changed or new (to_index),                 *)
(*   c: size of the prune candidate set, d: ids to delete.                 *)
(***************************************************************************)
\* The mutant: a run with nothing to index does not report the scanned count.
IndexScriptNoTotal(n, k) ==
    <<P("scanning", Some(0), None, "scanning items")>> \o
    IF k = 0
    THEN <<P("filtered", Some(0), None, "no changes"),
           P("done", Some(0), None, "no changes")>>
    ELSE <<P("filtered", Some(k), Some(n), "changed/new items"),
           P("indexing", Some(0), Some(k), "writing to vector store"),
           P("indexed", Some(k), Some(k), "completed"),
           P("done", Some(k), Some(k), "completed")>>

\* RAGService.index_items
IndexScript(n, k) ==
    <<P("scanning", Some(0), None, "scanning items")>> \o
    IF k = 0
    THEN <<P("filtered", Some(0), Some(n), "no changes"),
           P("done", Some(0), Some(n), "no changes")>>
    ELSE <<P("filtered", Some(k), Some(n), "changed/new items"),
           P("indexing", Some(0), Some(k), "writing to vector store"),
           P("indexed", Some(k), Some(k), "completed"),
           P("done", Some(k), Some(k), "completed")>>

\* RAGService.update_checksums
ChecksumScript(n) ==
    <<P("checksums", Some(0), Some(n), "updating"),
      P("done", Some(n), Some(n), "checksums updated")>>

\* The mutant: the first prune call reports the candidates as done and the
\* ids to delete as total.
PruneScriptSwapped(c, d) ==
    <<P("prune", Some(c), Some(d), "deleting " \o ToString(d))>> \o
    IF d = 0 THEN <<>>
    ELSE <<P("prune", Some(d), Some(d), "deleted " \o ToString(d))>>

\* process_one, prune branch with the vector table present; one batch of
\* at most 1000 ids holds every id of the model.
PruneScript(c, d) ==
    <<P("prune", Some(0), Some(c), "deleting " \o ToString(d))>> \o
    IF d = 0 THEN <<>>
    ELSE <<P("prune", Some(d), Some(d), "deleted " \o ToString(d))>>

\* process_one lines 47-147: dispatch on artifact_key, then on job.type.
JobScript(r, n, k, c, d) ==
    (IF r.artifact
     THEN IF r.type = "checksum_update" THEN ChecksumScript(n)
          ELSE IF r.type = "prune" THEN PruneScript(c, d)
          ELSE IndexScript(n, k)
     ELSE <<P("scanning", None, None, "starting")>> \o
          IF r.type = "checksum_update" THEN ChecksumScript(n)
          ELSE IndexScript(n, k))
    \o <<P("done", None, None, "completed")>>

(***************************************************************************)
(* History of a job, for the properties: fetches that returned it, times   *)
(* it became pending, fetches that returned it since it last became        *)
(* pending, whether it was ever canceled, and cancelRun: 1 once a cancel   *)
(* succeeded on it while processing, 2 once the worker has made a progress *)
(* callback after that cancel, 0 again when it is retried or fetched.      *)
(***************************************************************************)
NewHist ==
    [returns |-> 0, epoch |-> 1, since |-> 0, cancelRun |-> 0, everCanceled |-> FALSE]

Checkpoint(j) ==
    IF hist[j].cancelRun = 1 THEN [hist EXCEPT ![j].cancelRun = 2] ELSE hist

(***************************************************************************)
(* Front-end operations.                                                   *)
(***************************************************************************)
\* job_repo_factory.get(T).enqueue(T, payload)
Enqueue(jobType, artifact) ==
    /\ Len(jobs) < cf.maxJobs
    /\ jobs' = Append(jobs, NewRow(jobType, jobType, artifact))
    /\ hist' = Append(hist, NewHist)
    /\ UNCHANGED <<wk, vtable, cf, ix, pr, st>>

\* The ids a front-end command may name: every job, and one unknown id.
CommandIds == JobIds \cup {Len(jobs) + 1}

\* cancel(id): the UPDATE matches no row when the id is unknown.
Cancel(j) ==
    /\ ~Locked(j)
    /\ jobs' = IF j \in JobIds THEN [jobs EXCEPT ![j] = CancelRow(@)] ELSE jobs
    /\ hist' = IF j \in JobIds /\ CancelOk(jobs[j])
               THEN [hist EXCEPT ![j].everCanceled = TRUE,
                                 ![j].cancelRun =
                                     IF jobs[j].status = "processing" THEN 1 ELSE 0]
               ELSE hist
    /\ UNCHANGED <<wk, vtable, cf, ix, pr, st>>

\* retry(id): the UPDATE matches no row when the id is unknown.
Retry(j) ==
    /\ ~Locked(j)
    /\ (j \in JobIds /\ RetryOk(jobs[j])) => hist[j].epoch <= MaxRetries
    /\ jobs' = IF j \in JobIds THEN [jobs EXCEPT ![j] = RetryRow(@)] ELSE jobs
    /\ hist' = IF j \in JobIds /\ RetryOk(jobs[j])
               THEN [hist EXCEPT ![j].epoch = @ + 1, ![j].since = 0,
                                 ![j].cancelRun = 0]
               ELSE hist
    /\ UNCHANGED <<wk, vtable, cf, ix, pr, st>>

(***************************************************************************)
(* The worker loop: process_one.                                           *)
(***************************************************************************)
\* fetch_and_start, the statement: select the oldest pending row and lock it.
FetchSelect(w) ==
    /\ wk[w].pc = "idle"
    /\ FetchCandidates(RepoTable(WorkerQueueType(w))) # {}
    /\ wk' = [wk EXCEPT ![w] = [Idle EXCEPT !.pc = "fetching",
              !.job = MinOf(FetchCandidates(RepoTable(WorkerQueueType(w))))]]
    /\ UNCHANGED <<jobs, hist, vtable, cf, ix, pr, st>>

\* fetch_and_start, the commit: the row is processing and is returned.
FetchCommit(w) ==
    /\ wk[w].pc = "fetching"
    /\ jobs' = [jobs EXCEPT ![wk[w].job] = StartRow(@)]
    /\ hist' = [hist EXCEPT ![wk[w].job].returns = @ + 1,
                            ![wk[w].job].since = @ + 1,
                            ![wk[w].job].cancelRun = 0]
    /\ wk' = [wk EXCEPT ![w].pc = "loaded"]
    /\ UNCHANGED <<vtable, cf, ix, pr, st>>

\* fetch_and_start finds no row (none pending, or every pending row locked by
\* another fetch) and returns None; process_one returns False.
FetchNone(w) ==
    /\ wk[w].pc = "idle"
    /\ FetchCandidates(RepoTable(WorkerQueueType(w))) = {}
    /\ wk' = [wk EXCEPT ![w].pc = "none"]
    /\ UNCHANGED <<jobs, hist, vtable, cf, ix, pr, st>>

\* prune with an artifact and no vector table: progress(...), return True.
PruneNoTable(w) ==
    /\ wk[w].pc = "loaded"
    /\ jobs[wk[w].job].artifact /\ jobs[wk[w].job].type = "prune" /\ ~vtable
    /\ ~Locked(wk[w].job)
    /\ jobs' = [jobs EXCEPT ![wk[w].job] =
                   ProgressRow(@, P("prune", None, None, "vector table not found"))]
    /\ wk' = [wk EXCEPT ![w].pc = "returned"]
    /\ hist' = Checkpoint(wk[w].job)
    /\ UNCHANGED <<vtable, cf, ix, pr, st>>

\* Every other path: the source and the stores decide n, k, c, d.
Dispatch(w) ==
    /\ wk[w].pc = "loaded"
    /\ ~(jobs[wk[w].job].artifact /\ jobs[wk[w].job].type = "prune" /\ ~vtable)
    /\ \E n \in 0..cf.items : \E k \in 0..n : \E d \in 0..k :
          wk' = [wk EXCEPT ![w].pc = "run",
                           ![w].todo = JobScript(jobs[wk[w].job], n, k, n, d)]
    /\ UNCHANGED <<jobs, hist, vtable, cf, ix, pr, st>>

\* progress(stage, ...): job_repo.update_progress(job.id, done, total, note).
Progress(w) ==
    /\ wk[w].pc = "run" /\ wk[w].todo # <<>>
    /\ ~Locked(wk[w].job)
    /\ jobs' = [jobs EXCEPT ![wk[w].job] = ProgressRow(@, Head(wk[w].todo))]
    /\ wk' = [wk EXCEPT ![w].todo = Tail(@)]
    /\ vtable' = (vtable \/ Head(wk[w].todo).stage = "indexed")
    /\ hist' = Checkpoint(wk[w].job)
    /\ UNCHANGED <<cf, ix, pr, st>>

\* asyncio.run(job_repo.complete(job.id))
Complete(w) ==
    /\ wk[w].pc = "run" /\ wk[w].todo = <<>>
    /\ ~Locked(wk[w].job)
    /\ jobs' = [jobs EXCEPT ![wk[w].job] = CompleteRow(@)]
    /\ wk' = [wk EXCEPT ![w].pc = "returned", ![w].calls = @ + 1]
    /\ UNCHANGED <<hist, vtable, cf, ix, pr, st>>

\* except Exception as e: asyncio.run(job_repo.fail(job.id, str(e)))
Fail(w) ==
    /\ \/ wk[w].pc = "loaded"
       \/ wk[w].pc = "run" /\ Len(wk[w].todo) >= 2
    /\ ~Locked(wk[w].job)
    /\ jobs' = [jobs EXCEPT ![wk[w].job] = FailRow(@, "error")]
    /\ wk' = [wk EXCEPT ![w].pc = "returned", ![w].todo = <<>>, ![w].calls = @ + 1]
    /\ UNCHANGED <<hist, vtable, cf, ix, pr, st>>

\* main: while True: process_one(...)
Loop(w) ==
    /\ wk[w].pc = "returned"
    /\ wk' = [wk EXCEPT ![w] = Idle]
    /\ UNCHANGED <<jobs, hist, vtable, cf, ix, pr, st>>

(***************************************************************************)
(* The prune job: process_one, lines 75-126 and 147-167.                   *)
(* A doc id is a sequence of characters; a vector row is (node_id, repo);  *)
(* a manifest item is (doc_id, metadata.repo), the repo possibly missing.  *)
(***************************************************************************)
batch == 1000

DocIds == {<<"R", "a">>, <<"R", "b">>, <<"S", "a">>}
RowRepos == {"R", "S"}
ItemRepos == {"R", NULL}
Prefixes == {<<"R">>, <<"_">>}

VectorRows == [node_id : DocIds, repo : RowRepos]
ManifestItems == [doc_id : DocIds, repo : ItemRepos]

UpTo(S, m) == {x \in SUBSET S : Cardinality(x) <= m}

\* prune_scope: a list selector is present or not, and has values or is empty.
Selector(vals) == {[present |-> FALSE, vals |-> {}]} \cup
                  {[present |-> TRUE, vals |-> v] : v \in vals}
PruneScopes ==
    [metadata_repo_in : Selector({{}, {"R"}}),
     metadata_repo_from_manifest : BOOLEAN,
     doc_id_prefixes : Selector({{}} \cup {{x} : x \in Prefixes}),
     doc_id_in_from_manifest : BOOLEAN]

\* prune_scope missing or {}
NoSelector(scope) ==
    /\ ~scope.metadata_repo_in.present
    /\ ~scope.metadata_repo_from_manifest
    /\ ~scope.doc_id_prefixes.present
    /\ ~scope.doc_id_in_from_manifest

\* node_id LIKE '<pref>%': _ in the pattern stands for any one character.
Like(pref, id) ==
    /\ Len(pref) <= Len(id)
    /\ \A i \in 1..Len(pref) : pref[i] = "_" \/ pref[i] = id[i]

\* keep_ids = {it.doc_id for it in items_from_manifest(manifest)}
KeepIds(manifest) == {it.doc_id : it \in manifest}

\* repo_vals: the truthy metadata.repo values of the manifest's items
RepoVals(manifest) == {it.repo : it \in manifest} \ {NULL}

\* The mutant: doc_id_in_from_manifest selects the rows whose node_id is
\* missing from the manifest.
CandidatesMissingFromManifest(rows, manifest, scope) ==
    IF scope.doc_id_in_from_manifest
    THEN {r.node_id : r \in {x \in rows : x.node_id \notin KeepIds(manifest)}}
    ELSE {}

\* cand_set = set(candidates), lines 88-115
Candidates(rows, manifest, scope) ==
    (IF scope.metadata_repo_from_manifest
     THEN {r.node_id : r \in {x \in rows : x.repo \in RepoVals(manifest)}} ELSE {})
    \cup
    (IF scope.metadata_repo_in.present
     THEN {r.node_id : r \in {x \in rows : x.repo \in scope.metadata_repo_in.vals}}
     ELSE {})
    \cup
    (IF scope.doc_id_prefixes.present
     THEN {r.node_id : r \in {x \in rows :
                \E pref \in scope.doc_id_prefixes.vals : Like(pref, x.node_id)}}
     ELSE {})
    \cup
    (IF scope.doc_id_in_from_manifest THEN KeepIds(manifest) ELSE {})

\* The mutant: every candidate is deleted, kept or not.
ToDeleteAllCandidates(cand, keep) == cand

\* to_delete = [nid for nid in cand_set if nid not in keep_ids]
ToDelete(cand, keep) == cand \ keep

Min(a, b) == IF a <= b THEN a ELSE b

\* Table(table_name, md, autoload_with=eng) raises: progress(...), return True.
PruneTableMissing ==
    /\ pr.pc = "start" /\ ~vtable
    /\ pr' = [pr EXCEPT !.pc = "returned",
              !.job = ProgressRow(@, P("prune", None, None, "vector table not found"))]
    /\ UNCHANGED <<jobs, wk, hist, vtable, cf, ix, st>>

\* Lines 88-117: the selects, cand_set, to_delete and the first progress call.
PruneSelect ==
    /\ pr.pc = "start" /\ vtable
    /\ LET cand == Candidates(pr.rows, pr.manifest, pr.scope)
           del == ToDelete(cand, KeepIds(pr.manifest))
       IN pr' = [pr EXCEPT !.pc = "deleting", !.cand = cand, !.left = del,
                           !.total = Cardinality(del),
                           !.job = ProgressRow(@, P("prune", Some(0), Some(Cardinality(cand)),
                                        "deleting " \o ToString(Cardinality(del))))]
    /\ UNCHANGED <<jobs, wk, hist, vtable, cf, ix, st>>

\* Lines 120-126: one batch, deleted in the open transaction.
PruneDeleteBatch ==
    /\ pr.pc = "deleting" /\ pr.left # {}
    /\ \E part \in SUBSET pr.left :
          /\ Cardinality(part) = Min(batch, Cardinality(pr.left))
          /\ LET done == pr.total - Cardinality(pr.left) + Cardinality(part)
             IN pr' = [pr EXCEPT !.left = @ \ part,
                        !.tx = {r \in @ : r.node_id \notin part},
                        !.job = ProgressRow(@, P("prune", Some(done), Some(pr.total),
                                         "deleted " \o ToString(done)))]
    /\ UNCHANGED <<jobs, wk, hist, vtable, cf, ix, st>>

\* The with block ends: commit; progress("done", ...); complete(job.id).
PruneCommit ==
    /\ pr.pc = "deleting" /\ pr.left = {}
    /\ pr' = [pr EXCEPT !.pc = "returned", !.rows = pr.tx,
              !.job = CompleteRow(ProgressRow(@, P("done", None, None, "completed")))]
    /\ UNCHANGED <<jobs, wk, hist, vtable, cf, ix, st>>

\* A select or a delete raises: rollback; fail(job.id, str(e)).
PruneFail ==
    /\ pr.pc = "deleting" \/ (pr.pc = "start" /\ vtable)
    /\ pr' = [pr EXCEPT !.pc = "returned", !.tx = pr.rows,
              !.job = FailRow(@, "error")]
    /\ UNCHANGED <<jobs, wk, hist, vtable, cf, ix, st>>

(***************************************************************************)
(* The indexer: RAGService.index_items and update_checksums over the       *)
(* checksum store (doc_id -> checksum) and the vector store (the doc ids   *)
(* that have rows).                                                        *)
(***************************************************************************)
Docs == {"d1", "d2"}
Checksums == {"c1", "c2"}
IngestItems == [doc_id : Docs, checksum : Checksums]

SeqsUpTo(S, m) == UNION {[1..k -> S] : k \in 0..m}

EmptyMap == [d \in {} |-> NULL]

\* existing.get(doc_id)
Get(map, d) == IF d \in DOMAIN map THEN map[d] ELSE NULL

\* The mutant: ON CONFLICT (doc_id) DO NOTHING, the stored checksum stays.
UpsertKeepsFirst(map, rec) ==
    [d \in DOMAIN map \cup {rec.doc_id} |->
        IF d \in DOMAIN map THEN map[d] ELSE rec.checksum]

\* INSERT ... ON CONFLICT (doc_id) DO UPDATE SET checksum = EXCLUDED.checksum
Upsert(map, rec) ==
    [d \in DOMAIN map \cup {rec.doc_id} |->
        IF d = rec.doc_id THEN rec.checksum ELSE map[d]]

\* The mutant: an item is skipped as soon as its doc_id has a checksum row.
SkipsKnownDocId(force, existing, item) ==
    ~force /\ Get(existing, item.doc_id) # NULL

\* The mutant: no item is ever skipped.
SkipsNever(force, existing, item) == FALSE

\* The mutant: force is ignored, a stored checksum always skips the item.
SkipsIgnoringForce(force, existing, item) ==
    Get(existing, item.doc_id) = item.checksum

\* if not force and existing.get(item.doc_id) == item.checksum: continue
Skips(force, existing, item) ==
    ~force /\ Get(existing, item.doc_id) = item.checksum

\* The items the scan loop (lines 208-215) appends to to_index and updates.
RECURSIVE Changed(_, _, _)
Changed(force, existing, items) ==
    IF items = <<>> THEN <<>>
    ELSE (IF Skips(force, existing, Head(items)) THEN <<>> ELSE <<Head(items)>>)
         \o Changed(force, existing, Tail(items))

DocsOf(items) == {items[i].doc_id : i \in DOMAIN items}

\* The mutant: the checksums are upserted before the vectors are written.
NextStageChecksumsFirst(stage) ==
    CASE stage = "load" -> "scan"
      [] stage = "scan" -> "checksums"
      [] stage = "checksums" -> "vectors"
      [] stage = "vectors" -> "returned"

\* Program order of index_items: load_map, the scan loop, from_documents,
\* upsert_many, return.
NextStage(stage) ==
    CASE stage = "load" -> "scan"
      [] stage = "scan" -> "vectors"
      [] stage = "vectors" -> "checksums"
      [] stage = "checksums" -> "returned"

IxFrame == UNCHANGED <<jobs, wk, hist, vtable, cf, pr, st>>

\* The progress calls ps made in order on row r (process_one.progress).
RECURSIVE ProgressAll(_, _)
ProgressAll(r, ps) ==
    IF ps = <<>> THEN r ELSE ProgressAll(ProgressRow(r, Head(ps)), Tail(ps))

\* The job process_one has fetched for a pass: an artifact job of the type that
\* reaches the pass's service call.
PassJob(mode) ==
    StartRow(NewRow(IF mode = "checksums" THEN "checksum_update" ELSE "ingest",
                    IF mode = "checksums" THEN "checksum_update" ELSE "ingest",
                    TRUE))

\* A pass begins: process_one calls index_items(items, force) or
\* update_checksums(items), which collects its records and reports progress.
\* rerun: the pass is an index_items with force=false on the items of the
\* pass before it, which was an index_items that returned.
IxStart(mode, items, force) ==
    /\ ix.pc \in {"idle", "completed", "failed"}
    /\ ix.pass < MaxPasses
    /\ ix' = [ix EXCEPT !.pass = @ + 1, !.mode = mode, !.items = items,
              !.force = force, !.existing = EmptyMap, !.pos = 0,
              !.to_index = <<>>,
              !.updates = IF mode = "checksums" THEN items ELSE <<>>,
              !.pc = IF mode = "checksums" THEN "checksums" ELSE "load",
              !.cs0 = ix.cs, !.vec0 = ix.vec,
              !.csWritten = {}, !.vecWritten = {}, !.vfail = FALSE,
              !.vecWrites = 0, !.csWrites = 0,
              !.rerun = /\ mode = "index" /\ ~force
                         /\ ix.mode = "index" /\ ix.pc = "completed"
                         /\ items = ix.items,
              !.job = IF mode = "checksums"
                      THEN ProgressRow(PassJob(mode),
                                       ChecksumScript(Len(items))[1])
                      ELSE PassJob(mode)]
    /\ IxFrame

\* existing = self._checksums.load_map(); progress("scanning", ...)
IxLoad ==
    /\ ix.pc = "load"
    /\ ix' = [ix EXCEPT !.existing = ix.cs, !.pc = NextStage("load"),
              !.job = ProgressRow(@, IndexScript(0, 0)[1])]
    /\ IxFrame

\* for item in items: ...; if not to_index: progress, return; else progress
\* "filtered" and "indexing".
IxScan ==
    /\ ix.pc = "scan"
    /\ LET ch == Changed(ix.force, ix.existing, ix.items)
           script == IndexScript(Len(ix.items), Len(ch))
       IN ix' = [ix EXCEPT !.to_index = ch, !.updates = ch, !.pos = 0,
                  !.pc = IF ch = <<>> THEN "returned" ELSE NextStage("scan"),
                  !.job = ProgressAll(@, SubSeq(script, 2, 3))]
    /\ IxFrame

\* VectorStoreIndex.from_documents: the rows of one document are written.
IxVectorWrite ==
    /\ ix.pc = "vectors" /\ ix.pos < Len(ix.to_index)
    /\ ix' = [ix EXCEPT !.pos = @ + 1,
              !.vec = @ \cup {ix.to_index[ix.pos + 1].doc_id},
              !.vecWritten = @ \cup {ix.to_index[ix.pos + 1].doc_id},
              !.vecWrites = @ + 1]
    /\ IxFrame

\* from_documents returns.
IxVectorDone ==
    /\ ix.pc = "vectors" /\ ix.pos = Len(ix.to_index)
    /\ ix' = [ix EXCEPT !.pos = 0, !.pc = NextStage("vectors")]
    /\ IxFrame

\* self._checksums.upsert_many: one record of executemany is upserted.
IxUpsert ==
    /\ ix.pc = "checksums" /\ ix.pos < Len(ix.updates)
    /\ ix' = [ix EXCEPT !.pos = @ + 1,
              !.cs = Upsert(@, ix.updates[ix.pos + 1]),
              !.csWritten = @ \cup {ix.updates[ix.pos + 1].doc_id},
              !.csWrites = @ + 1]
    /\ IxFrame

\* upsert_many returns; the service call reports its last progress and
\* returns.
IxUpsertDone ==
    /\ ix.pc = "checksums" /\ ix.pos = Len(ix.updates)
    /\ ix' = [ix EXCEPT !.pos = 0,
              !.pc = IF ix.mode = "checksums" THEN "returned"
                     ELSE NextStage("checksums"),
              !.job = IF ix.mode = "checksums"
                      THEN ProgressRow(@, ChecksumScript(Len(ix.items))[2])
                      ELSE ProgressAll(@, SubSeq(IndexScript(Len(ix.items),
                                                   Len(ix.to_index)), 4, 5))]
    /\ IxFrame

\* process_one after the service call: progress("done", note="completed"),
\* job_repo.complete(job.id).
IxJobComplete ==
    /\ ix.pc = "returned"
    /\ ix' = [ix EXCEPT !.pc = "completed",
              !.job = CompleteRow(ProgressRow(@, P("done", None, None, "completed")))]
    /\ IxFrame

\* An exception at any point of the pass, which process_one turns into
\* fail(job.id, str(e)).
IxRaise ==
    /\ ix.pc \in {"load", "scan", "vectors", "checksums"}
    /\ ix' = [ix EXCEPT !.pc = "failed", !.vfail = (ix.pc = "vectors"),
              !.job = FailRow(@, "error")]
    /\ IxFrame

Off == <<>>

\* A service with empty stores that has run no pass.
NoPass ==
    [pass |-> 0, pc |-> "idle", mode |-> "index", items |-> <<>>,
     force |-> FALSE, existing |-> EmptyMap, to_index |-> <<>>,
     updates |-> <<>>, pos |-> 0, cs |-> EmptyMap, vec |-> {},
     cs0 |-> EmptyMap, vec0 |-> {}, csWritten |-> {},
     vecWritten |-> {}, vfail |-> FALSE,
     vecWrites |-> 0, csWrites |-> 0,
     rerun |-> FALSE,
     job |-> NewRow("ingest", "ingest", TRUE)]

\* Empty stores; what a pass finds was written by the passes before it.
InitIndex ==
    /\ jobs = <<>> /\ wk = <<>> /\ hist = <<>> /\ cf = Off /\ pr = Off /\ st = Off
    /\ vtable = FALSE
    /\ ix = NoPass

NextIndex ==
    \/ \E items \in SeqsUpTo(IngestItems, MaxIxItems), force \in BOOLEAN :
          IxStart("index", items, force)
    \/ \E items \in SeqsUpTo(IngestItems, MaxIxItems) :
          IxStart("checksums", items, FALSE)
    \/ IxLoad
    \/ IxScan
    \/ IxVectorWrite
    \/ IxVectorDone
    \/ IxUpsert
    \/ IxUpsertDone
    \/ IxJobComplete
    \/ IxRaise

SpecIndex == InitIndex /\ [][NextIndex]_vars

(***************************************************************************)
(* Service startup: RAGService.__init__ ends with _verify_embed_dim, then  *)
(* the worker runs its jobs on the service.                                *)
(***************************************************************************)
EmbedDims == {"dim768", "dim1536"}

\* What _verify_embed_dim does, from whether data_<table> reflects, the
\* dimension its embedding column declares (None when it has none) and
\* vs_config.embed_dim.
VerifyEmbedDim(exists, actual, expected) ==
    IF ~exists THEN "skipped"
    ELSE IF actual = None THEN "inconclusive"
    ELSE IF actual # Some(expected) THEN "ValueError"
    ELSE "verified"

\* The outer try/except of _verify_embed_dim catches every Exception, the
\* ValueError of the mismatch included, logs it and returns.
Swallowed(outcome) == outcome \in {"ValueError"}

\* RAGService.__init__ returns the service unless _verify_embed_dim raised.
SvcStartup ==
    /\ ix.pc = "startup"
    /\ LET outcome == VerifyEmbedDim(vtable, ix.actual, ix.expected)
       IN ix' = [ix EXCEPT !.verify = outcome,
                           !.pc = IF outcome = "ValueError" /\ ~Swallowed(outcome)
                                  THEN "fatal" ELSE "idle"]
    /\ IxFrame

\* build_service() is about to run: the vector table may exist, with any
\* declared dimension, and any dimension is configured.
InitStartup ==
    /\ jobs = <<>> /\ wk = <<>> /\ hist = <<>> /\ cf = Off /\ pr = Off /\ st = Off
    /\ vtable \in BOOLEAN
    /\ \E a \in {None} \cup {Some(d) : d \in EmbedDims}, e \in EmbedDims :
          /\ ~vtable => a = None
          /\ ix = [f \in DOMAIN NoPass \cup {"actual", "expected", "verify"} |->
                      CASE f = "actual" -> a
                        [] f = "expected" -> e
                        [] f = "verify" -> NULL
                        [] f = "pc" -> "startup"
                        [] OTHER -> NoPass[f]]

NextStartup ==
    \/ SvcStartup
    \/ NextIndex

SpecStartup == InitStartup /\ [][NextStartup]_vars

\* A prune job with an artifact has been fetched; any prior vector rows, any
\* manifest, any prune_scope. Without the vector table there are no rows.
InitPrune ==
    /\ jobs = <<>> /\ wk = <<>> /\ hist = <<>> /\ cf = Off /\ ix = Off /\ st = Off
    /\ vtable \in BOOLEAN
    /\ \E rows \in UpTo(VectorRows, MaxRows), m \in UpTo(ManifestItems, MaxRows),
          scope \in PruneScopes :
          /\ ~vtable => rows = {}
          /\ pr = [pc |-> "start", rows0 |-> rows, rows |-> rows, tx |-> rows,
                   manifest |-> m, scope |-> scope, cand |-> {}, left |-> {},
                   total |-> 0, job |-> StartRow(NewRow("prune", "prune", TRUE))]

NextPrune ==
    \/ PruneTableMissing
    \/ PruneSelect
    \/ PruneDeleteBatch
    \/ PruneCommit
    \/ PruneFail

SpecPrune == InitPrune /\ [][NextPrune]_vars

InitJobs(c) ==
    /\ cf = c
    /\ jobs = <<>>
    /\ hist = <<>>
    /\ wk = [w \in c.workers |-> Idle]
    /\ vtable \in BOOLEAN
    /\ ix = Off
    /\ pr = Off
    /\ st = Off

\* One worker of any queue type, every job type and payload shape.
Init ==
    \E q \in JobTypes :
        InitJobs([workers |-> {1}, queue |-> <<q>>, maxJobs |-> MaxJobs,
                  types |-> JobTypes, artifacts |-> BOOLEAN, items |-> MaxItems])

\* Several workers on one queue; the jobs are prune jobs over empty manifests.
InitConc ==
    InitJobs([workers |-> 1..NumWorkers, queue |-> [w \in 1..NumWorkers |-> "prune"],
              maxJobs |-> MaxConcJobs,
              types |-> {"prune"}, artifacts |-> {TRUE}, items |-> 0])

Next ==
    \/ \E t \in cf.types, a \in cf.artifacts : Enqueue(t, a)
    \/ \E j \in CommandIds : Cancel(j)
    \/ \E j \in CommandIds : Retry(j)
    \/ \E w \in Workers : FetchSelect(w)
    \/ \E w \in Workers : FetchCommit(w)
    \/ \E w \in Workers : PruneNoTable(w)
    \/ \E w \in Workers : Dispatch(w)
    \/ \E w \in Workers : Progress(w)
    \/ \E w \in Workers : Complete(w)
    \/ \E w \in Workers : Fail(w)
    \/ \E w \in Workers : Loop(w)

Spec == Init /\ [][Next]_vars

\* A table of pending and finished jobs, and workers that each call
\* fetch_and_start once.
InitFetch ==
    /\ cf = [workers |-> 1..NumWorkers, queue |-> [w \in 1..NumWorkers |-> "ingest"],
             maxJobs |-> 0, types |-> {}, artifacts |-> {}, items |-> 0]
    /\ \E k \in 0..MaxRepoJobs : \E done \in SUBSET (1..k) :
          /\ jobs = [j \in 1..k |->
                        IF j \in done
                        THEN CompleteRow(StartRow(NewRow("ingest", "ingest", TRUE)))
                        ELSE NewRow("ingest", "ingest", TRUE)]
          /\ hist = [j \in 1..k |->
                        IF j \in done
                        THEN [NewHist EXCEPT !.returns = 1, !.since = 1]
                        ELSE NewHist]
    /\ wk = [w \in 1..NumWorkers |-> Idle]
    /\ vtable = TRUE
    /\ ix = Off
    /\ pr = Off
    /\ st = Off

NextFetch ==
    \/ \E w \in Workers : FetchSelect(w)
    \/ \E w \in Workers : FetchCommit(w)
    \/ \E w \in Workers : FetchNone(w)

SpecFetch == InitFetch /\ [][NextFetch]_vars

(***************************************************************************)
(* The repository under any sequence of its operations: a caller that got  *)
(* a job from fetch_and_start may call update_progress, complete and fail  *)
(* on its id at any later time, in any order; the repository keeps no      *)
(* record of who holds a job.                                              *)
(***************************************************************************)
\* fetch_and_start has returned the job to its caller.
RepoReturn(w) ==
    /\ wk[w].pc = "loaded"
    /\ wk' = [wk EXCEPT ![w] = Idle]
    /\ UNCHANGED <<jobs, hist, vtable, cf, ix, pr, st>>

\* complete(id)
RepoComplete(j) ==
    /\ hist[j].returns >= 1 /\ ~Locked(j)
    /\ jobs' = [jobs EXCEPT ![j] = CompleteRow(@)]
    /\ UNCHANGED <<wk, hist, vtable, cf, ix, pr, st>>

\* fail(id, error)
RepoFail(j) ==
    /\ hist[j].returns >= 1 /\ ~Locked(j)
    /\ jobs' = [jobs EXCEPT ![j] = FailRow(@, "error")]
    /\ UNCHANGED <<wk, hist, vtable, cf, ix, pr, st>>

\* update_progress(id, done, total, note)
RepoProgress(j, p) ==
    /\ hist[j].returns >= 1 /\ ~Locked(j)
    /\ jobs' = [jobs EXCEPT ![j] = ProgressRow(@, p)]
    /\ hist' = Checkpoint(j)
    /\ UNCHANGED <<wk, vtable, cf, ix, pr, st>>

\* Several callers of fetch_and_start on one table.
InitRepo ==
    /\ InitJobs([workers |-> 1..NumWorkers,
                 queue |-> [w \in 1..NumWorkers |-> "ingest"],
                 maxJobs |-> MaxJobs,
                 types |-> {"ingest"}, artifacts |-> {TRUE}, items |-> 0])
    /\ vtable

NextRepo ==
    \/ \E t \in cf.types, a \in cf.artifacts : Enqueue(t, a)
    \/ \E j \in CommandIds : Cancel(j)
    \/ \E j \in CommandIds : Retry(j)
    \/ \E w \in Workers : FetchSelect(w)
    \/ \E w \in Workers : FetchCommit(w)
    \/ \E w \in Workers : RepoReturn(w)
    \/ \E j \in JobIds : RepoComplete(j)
    \/ \E j \in JobIds : RepoFail(j)
    \/ \E j \in JobIds : RepoProgress(j, IndexScript(0, 0)[1])

SpecRepo == InitRepo /\ [][NextRepo]_vars

(***************************************************************************)
(* update_progress on one job that a worker has fetched, whatever became   *)
(* of the job since, with every choice of given and omitted arguments.     *)
(***************************************************************************)
ProgressArgs ==
    [stage : {"scanning"}, done : {None, Some(0), Some(1)},
     total : {None, Some(1), Some(2)}, note : {NULL, "scanning items", "completed"}]

\* The rows enqueue, fetch_and_start and then complete, fail, cancel or
\* fail and retry leave.
FetchedRows ==
    LET r == StartRow(NewRow("ingest", "ingest", TRUE))
    IN {r, CompleteRow(r), FailRow(r, "error"), CancelRow(r),
        RetryRow(FailRow(r, "error"))}

InitProgress ==
    /\ cf = [workers |-> {}, queue |-> <<>>, maxJobs |-> 0,
             types |-> {}, artifacts |-> {}, items |-> 0]
    /\ \E r \in FetchedRows : jobs = <<r>>
    /\ hist = <<[NewHist EXCEPT !.returns = 1,
                               !.since = IF jobs[1].status = "pending" THEN 0 ELSE 1,
                               !.epoch = IF jobs[1].status = "pending" THEN 2 ELSE 1,
                               !.everCanceled = (jobs[1].status = "canceled")]>>
    /\ wk = <<>>
    /\ vtable = TRUE
    /\ ix = Off
    /\ pr = Off
    /\ st = Off

NextProgress == \E j \in JobIds, p \in ProgressArgs : RepoProgress(j, p)

SpecProgress == InitProgress /\ [][NextProgress]_vars

(***************************************************************************)
(* Inline-sources payloads: {"sources": [{"type": ...}, ...]} enqueued by  *)
(* the front-end and materialized by the worker with config_from_dict.     *)
(* A payload is the sequence of its sources' type tags; the other fields   *)
(* of a source are taken to be well formed.                                *)
(***************************************************************************)
MaxInlineJobs == 1  \* jobs enqueued under SpecInline
MaxSources == 1     \* sources of one inline payload

\* The branches of config_from_dict's if / elif chain.
HandledTypes == {"local_dir", "github_repo", "github_org",
                 "web_url", "sitemap", "website"}

\* What a payload may carry as "type": a handled tag, another spelling of
\* one, the tags the front-end and the issue sources use, a tag of no source
\* class, or no tag at all.
SourceTags == HandledTypes \cup
              {"github_repo_local", "github_issues", "LOCAL_DIR", "rss_feed", NULL}

\* str.lower on the tags of the model
Lower(t) == IF t = "LOCAL_DIR" THEN "local_dir" ELSE t

\* t = (item.get("type") or "").lower()
TypeOf(tag) == Lower(IF tag = NULL THEN "" ELSE tag)

\* config_from_dict: the first source of an unhandled type raises ValueError.
RECURSIVE ConfigFromDict(_)
ConfigFromDict(srcs) ==
    IF srcs = <<>> THEN "ok"
    ELSE IF TypeOf(Head(srcs)) \notin HandledTypes
         THEN "Unknown source type: " \o TypeOf(Head(srcs))
         ELSE ConfigFromDict(Tail(srcs))

\* enqueue(job_type, payload): the payload is inserted as given.
EnqueueInline(jobType, srcs) ==
    /\ Len(jobs) < cf.maxJobs
    /\ jobs' = Append(jobs, NewRow(jobType, jobType, FALSE) @@ [sources |-> srcs])
    /\ hist' = Append(hist, NewHist)
    /\ UNCHANGED <<wk, vtable, cf, ix, pr, st>>

\* process_one, line 130 raising: except Exception as e: fail(job.id, str(e))
InlineReject(w) ==
    /\ wk[w].pc = "loaded"
    /\ ConfigFromDict(jobs[wk[w].job].sources) # "ok"
    /\ ~Locked(wk[w].job)
    /\ jobs' = [jobs EXCEPT ![wk[w].job] = FailRow(@, ConfigFromDict(@.sources))]
    /\ wk' = [wk EXCEPT ![w].pc = "returned", ![w].calls = @ + 1]
    /\ UNCHANGED <<hist, vtable, cf, ix, pr, st>>

\* process_one, lines 130-146: the sources are built and streamed.
InlineRun(w) ==
    /\ wk[w].pc = "loaded"
    /\ ConfigFromDict(jobs[wk[w].job].sources) = "ok"
    /\ Dispatch(w)

InitInline ==
    InitJobs([workers |-> {1}, queue |-> <<"ingest">>, maxJobs |-> MaxInlineJobs,
              types |-> JobTypes, artifacts |-> {FALSE}, items |-> MaxItems])

NextInline ==
    \/ \E t \in cf.types, srcs \in SeqsUpTo(SourceTags, MaxSources) :
          EnqueueInline(t, srcs)
    \/ \E w \in Workers : FetchSelect(w)
    \/ \E w \in Workers : FetchCommit(w)
    \/ \E w \in Workers : InlineReject(w)
    \/ \E w \in Workers : InlineRun(w)
    \/ \E w \in Workers : Progress(w)
    \/ \E w \in Workers : Complete(w)
    \/ \E w \in Workers : Loop(w)

SpecInline == InitInline /\ [][NextInline]_vars

(***************************************************************************)
(* The chunking stage: ChunkingSource.stream over chunk_text               *)
(* (rag_core/ingestion/chunked.py, rag_core/chunking.py).  A text is a     *)
(* sequence of characters.                                                 *)
(***************************************************************************)
MaxTextLen == 3     \* characters of a source item's text
MaxChunkSize == 3   \* largest chunk_size
MaxOverlap == 1     \* largest overlap
MaxParents == 1     \* items the wrapped source yields

Chars == {"a", " ", "\n", "\r"}
Whitespace == {" ", "\n", "\r"}
Texts == SeqsUpTo(Chars, MaxTextLen)

\* hashlib.sha256(text.encode("utf-8", errors="ignore")).hexdigest(): a
\* value that is a function of the text and differs for different texts.
Sha256(text) == "sha256(" \o ToString(text) \o ")"

\* text.replace("\r\n", "\n")
RECURSIVE ReplaceCRLF(_)
ReplaceCRLF(t) ==
    IF Len(t) < 2 THEN t
    ELSE IF t[1] = "\r" /\ t[2] = "\n"
         THEN <<"\n">> \o ReplaceCRLF(SubSeq(t, 3, Len(t)))
         ELSE <<t[1]>> \o ReplaceCRLF(Tail(t))

\* str.split("\n\n"), cur being the part read so far
RECURSIVE SplitOn(_, _)
SplitOn(t, cur) ==
    IF t = <<>> THEN <<cur>>
    ELSE IF Len(t) >= 2 /\ t[1] = "\n" /\ t[2] = "\n"
         THEN <<cur>> \o SplitOn(SubSeq(t, 3, Len(t)), <<>>)
         ELSE SplitOn(Tail(t), Append(cur, t[1]))

\* _split_paragraphs
SplitParagraphs(text) ==
    LET parts == SplitOn(ReplaceCRLF(text), <<>>)
    IN IF parts # <<>> THEN parts ELSE <<text>>

\* str.strip()
RECURSIVE LStrip(_)
LStrip(t) == IF t # <<>> /\ t[1] \in Whitespace THEN LStrip(Tail(t)) ELSE t

RECURSIVE RStrip(_)
RStrip(t) ==
    IF t # <<>> /\ t[Len(t)] \in Whitespace THEN RStrip(SubSeq(t, 1, Len(t) - 1)) ELSE t

Strip(t) == LStrip(RStrip(t))

\* t[-overlap:] if overlap > 0 else ""
TailOf(t, overlap) ==
    IF overlap > 0
    THEN IF overlap >= Len(t) THEN t ELSE SubSeq(t, Len(t) - overlap + 1, Len(t))
    ELSE <<>>

\* The loop of chunk_text over the paragraphs; buf is "".join(buf), which is
\* empty exactly when the list buf is (every pp ends with a newline).
RECURSIVE ChunkLoop(_, _, _, _, _, _)
ChunkLoop(paras, chunks, buf, cur_len, chunk_size, overlap) ==
    IF paras = <<>>
    THEN IF buf # <<>> THEN Append(chunks, Strip(buf)) ELSE chunks
    ELSE LET p == Head(paras)
             pp == IF p # <<>> /\ p[Len(p)] = "\n" THEN p ELSE Append(p, "\n")
         IN IF cur_len + Len(pp) > chunk_size /\ buf # <<>>
            THEN LET tail == TailOf(Strip(buf), overlap)
                 IN ChunkLoop(Tail(paras), Append(chunks, Strip(buf)),
                              tail \o pp, Len(tail) + Len(pp), chunk_size, overlap)
            ELSE ChunkLoop(Tail(paras), chunks, buf \o pp, cur_len + Len(pp),
                           chunk_size, overlap)

\* The mutant: chunks are numbered from 1.
EnumerateFromOne(chunks) == [i \in DOMAIN chunks |-> <<i, chunks[i]>>]

\* list(enumerate(chunks))
Enumerate(chunks) == [i \in DOMAIN chunks |-> <<i - 1, chunks[i]>>]

\* chunk_text(text, chunk_size, overlap)
ChunkText(text, chunk_size, overlap) ==
    IF chunk_size <= 0 THEN <<<<0, text>>>>
    ELSE Enumerate(ChunkLoop(SplitParagraphs(text), <<>>, <<>>, 0, chunk_size, overlap))

\* md = dict(item.metadata); md.update({...})
Update(md, new) ==
    [k \in DOMAIN md \cup DOMAIN new |-> IF k \in DOMAIN new THEN new[k] ELSE md[k]]

Metas == {[k \in {"repo"} |-> "R"], [k \in {"repo", "parent_id"} |-> "R"]}

\* What a source adapter yields.
SourceItems ==
    {[doc_id |-> "R@a.md", text |-> t, metadata |-> m, checksum |-> Sha256(t)] :
        t \in Texts, m \in Metas}

\* The body of ChunkingSource.stream's inner loop for chunk (idx, ct).
ChunkItem(item, idx, ct, total) ==
    [doc_id |-> item.doc_id \o "#c" \o ToString(idx),
     text |-> ct,
     metadata |-> Update(item.metadata,
                         [k \in {"parent_id", "chunk_index", "chunk_total"} |->
                             IF k = "parent_id" THEN item.doc_id
                             ELSE IF k = "chunk_index" THEN idx ELSE total]),
     checksum |-> Sha256(ct)]

StFrame == UNCHANGED <<jobs, wk, hist, vtable, cf, ix, pr>>

\* for item in self.source.stream(): chunks = chunk_text(...); total = len(chunks)
ChunkPull(item) ==
    /\ st.pc = "next" /\ st.wrapped /\ st.parents < MaxParents
    /\ LET chunks == ChunkText(item.text, st.chunk_size, st.overlap)
       IN st' = [st EXCEPT !.pc = "emit", !.parents = @ + 1, !.item = item,
                           !.chunks = chunks, !.total = Len(chunks), !.out = <<>>]
    /\ StFrame

\* yield IngestItem(doc_id=cid, text=ct, metadata=md, checksum=csum)
ChunkYield ==
    /\ st.pc = "emit" /\ Len(st.out) < Len(st.chunks)
    /\ LET c == st.chunks[Len(st.out) + 1]
       IN st' = [st EXCEPT !.out = Append(@, ChunkItem(st.item, c[1], c[2], st.total))]
    /\ StFrame

\* The inner loop ends; the outer loop asks the source for its next item.
ChunkNext ==
    /\ st.pc = "emit" /\ Len(st.out) = Len(st.chunks)
    /\ st' = [st EXCEPT !.pc = "next"]
    /\ StFrame

\* The source was not wrapped (if cfg.chunk_size: is false): its items reach
\* the consumer as they are.
PassThrough(item) ==
    /\ st.pc = "next" /\ ~st.wrapped /\ st.parents < MaxParents
    /\ st' = [st EXCEPT !.parents = @ + 1, !.item = item, !.chunks = <<>>,
                        !.total = 0, !.out = <<item>>]
    /\ StFrame

\* process_one line 133: the source is wrapped when chunk_size is truthy.
InitChunk ==
    /\ jobs = <<>> /\ wk = <<>> /\ hist = <<>> /\ cf = Off /\ ix = Off /\ pr = Off
    /\ vtable = FALSE
    /\ \E size \in (-1)..MaxChunkSize, overlap \in 0..MaxOverlap :
          st = [pc |-> "next", chunk_size |-> size, overlap |-> overlap,
                wrapped |-> (size # 0), parents |-> 0,
                item |-> NULL, chunks |-> <<>>, total |-> 0, out |-> <<>>]

NextChunk ==
    \/ \E item \in SourceItems : ChunkPull(item)
    \/ ChunkYield
    \/ ChunkNext
    \/ \E item \in SourceItems : PassThrough(item)

SpecChunk == InitChunk /\ [][NextChunk]_vars

(***************************************************************************)
(* Checksums of the source adapters (rag_core/ingestion/*.py) across       *)
(* processes.  Python salts hash(str) with a seed drawn when the process   *)
(* starts, so str(hash(text)) is a function of the seed and the text.      *)
(***************************************************************************)
MaxSeeds == 2       \* hash seeds a process may draw
MaxRuns == 2        \* items ingested in all

Seeds == 1..MaxSeeds
AdapterKinds == {"filesystem", "git_repo", "github_org", "issues",
                 "url", "sitemap", "website"}
PageTexts == {<<"a">>, <<"a", " ">>}

\* str(hash(text)) in a process whose hash seed is seed
PyHash(seed, text) == "hash(" \o ToString(seed) \o ", " \o ToString(text) \o ")"

\* The checksum each adapter gives the item it yields.
AdapterChecksum(kind, seed, text) ==
    IF kind \in {"url", "sitemap", "website"} THEN PyHash(seed, text)
    ELSE Sha256(text)

\* One document per adapter.
AdapterItem(kind, seed, text) ==
    [doc_id |-> kind, text |-> text, checksum |-> AdapterChecksum(kind, seed, text)]

\* A process starts (a worker, the bot, the CLI): its hash seed is drawn.
ProcStart(seed) ==
    /\ st' = [st EXCEPT !.seed = seed]
    /\ StFrame

\* The process streams one item of an adapter into index_items(force=False):
\* the item is skipped, or indexed and its checksum stored.
AdapterIngest(kind, text) ==
    /\ st.runs < MaxRuns
    /\ LET item == AdapterItem(kind, st.seed, text)
           skip == Skips(FALSE, st.cs, item)
       IN st' = [st EXCEPT !.runs = @ + 1,
                   !.cs = IF skip THEN @ ELSE Upsert(@, item),
                   !.seen = Upsert(@, [doc_id |-> item.doc_id, checksum |-> text]),
                   !.last = [item |-> item, skipped |-> skip,
                             unchanged |-> /\ item.doc_id \in DOMAIN st.seen
                                          /\ st.seen[item.doc_id] = text]]
    /\ StFrame

InitAdapters ==
    /\ jobs = <<>> /\ wk = <<>> /\ hist = <<>> /\ cf = Off /\ ix = Off /\ pr = Off
    /\ vtable = FALSE
    /\ \E seed \in Seeds :
          st = [seed |-> seed, runs |-> 0, cs |-> EmptyMap, seen |-> EmptyMap,
                last |-> [item |-> AdapterItem("filesystem", seed, <<>>),
                          skipped |-> FALSE, unchanged |-> FALSE]]

NextAdapters ==
    \/ \E seed \in Seeds : ProcStart(seed)
    \/ \E kind \in AdapterKinds, text \in PageTexts : AdapterIngest(kind, text)

SpecAdapters == InitAdapters /\ [][NextAdapters]_vars

(***************************************************************************)
(* The artifact store (rag_core/etl/artifacts.py, artifacts_s3.py).        *)
(* A Python value is <<tag, payload>>: a dict is the sequence of its       *)
(* <<key, value>> pairs in insertion order.  A JSON document is a tree of  *)
(* <<"object" | "array" | "string" | "number" | "null", payload>>.         *)
(***************************************************************************)
MaxPuts == 3        \* put_manifest calls

PyNone == <<"none", 0>>
PyStr(x) == <<"str", x>>
PyInt(n) == <<"int", n>>
PyList(xs) == <<"list", xs>>
PyDict(kvs) == <<"dict", kvs>>

\* json.dumps, up to the text of the document: keys become strings.
RECURSIVE JsonDumps(_)
JsonDumps(v) ==
    IF v[1] = "none" THEN <<"null", 0>>
    ELSE IF v[1] = "str" THEN <<"string", v[2]>>
    ELSE IF v[1] = "int" THEN <<"number", v[2]>>
    ELSE IF v[1] = "list" THEN <<"array", [i \in DOMAIN v[2] |-> JsonDumps(v[2][i])]>>
    ELSE <<"object", [i \in DOMAIN v[2] |->
                         <<IF v[2][i][1][1] = "int" THEN ToString(v[2][i][1][2])
                           ELSE v[2][i][1][2],
                           JsonDumps(v[2][i][2])>>]>>

\* json.loads
RECURSIVE JsonLoads(_)
JsonLoads(j) ==
    IF j[1] = "null" THEN PyNone
    ELSE IF j[1] = "string" THEN PyStr(j[2])
    ELSE IF j[1] = "number" THEN PyInt(j[2])
    ELSE IF j[1] = "array" THEN PyList([i \in DOMAIN j[2] |-> JsonLoads(j[2][i])])
    ELSE PyDict([i \in DOMAIN j[2] |-> <<PyStr(j[2][i][1]), JsonLoads(j[2][i][2])>>])

\* The metadata dicts of the adapters: strings, None and a list of strings.
ManifestMetas ==
    {PyDict(<<<<PyStr("repo"), PyStr("R")>>, <<PyStr("commit_sha"), PyNone>>>>),
     PyDict(<<<<PyStr("state"), PyStr("open")>>,
              <<PyStr("labels"), PyList(<<PyStr("bug")>>)>>>>)}

\* The dict build_manifest appends for an item.
ManifestItem(md) ==
    PyDict(<<<<PyStr("doc_id"), PyStr("R@a.md")>>, <<PyStr("text"), PyStr("a")>>,
             <<PyStr("metadata"), md>>, <<PyStr("checksum"), PyStr(Sha256(<<"a">>))>>>>)

\* build_manifest: {"count": count, "items": items}
Manifests ==
    {PyDict(<<<<PyStr("count"), PyInt(Len(items))>>, <<PyStr("items"), PyList(items)>>>>) :
        items \in SeqsUpTo({ManifestItem(md) : md \in ManifestMetas}, 1)}

ArtifactKeys == 1..(MaxPuts + 1)

\* The mutant: the key is any key, used or not.
Uuid4Any(used) == ArtifactKeys

\* uuid.uuid4().hex: 122 random bits, taken to differ from every key in use.
Uuid4(used) == ArtifactKeys \ used

\* put_manifest up to the opening of the file: the key is drawn and the
\* file manifest-<key>.json is created or truncated.
PutOpen(m) ==
    /\ st.put = <<>> /\ st.puts < MaxPuts
    /\ \E key \in Uuid4(DOMAIN st.files) :
          st' = [st EXCEPT !.puts = @ + 1,
                           !.put = <<[key |-> key, data |-> m]>>,
                           !.files = [k \in DOMAIN @ \cup {key} |->
                                         IF k = key THEN [body |-> <<>>, whole |-> FALSE]
                                         ELSE @[k]]]
    /\ StFrame

\* write_text(json.dumps(data)) / put_object(Body=body) completes.
PutWrite ==
    /\ st.put # <<>> /\ ~st.files[st.put[1].key].whole
    /\ st' = [st EXCEPT !.files[st.put[1].key] =
                            [body |-> <<JsonDumps(st.put[1].data)>>, whole |-> TRUE]]
    /\ StFrame

\* return key
PutReturn ==
    /\ st.put # <<>> /\ st.files[st.put[1].key].whole
    /\ st' = [st EXCEPT !.put = <<>>,
                        !.returned = [k \in DOMAIN @ \cup {st.put[1].key} |->
                                         IF k = st.put[1].key THEN st.put[1].data ELSE @[k]]]
    /\ StFrame

\* The process dies inside put_manifest: the call never returns.
PutCrash ==
    /\ st.put # <<>>
    /\ st' = [st EXCEPT !.put = <<>>]
    /\ StFrame

\* get_manifest(key) on a key some put_manifest returned.
GetManifest(key) ==
    /\ key \in DOMAIN st.returned
    /\ st' = [st EXCEPT !.got =
                 <<[key |-> key,
                    data |-> IF st.files[key].whole
                             THEN JsonLoads(st.files[key].body[1])
                             ELSE <<"JSONDecodeError", 0>>]>>]
    /\ StFrame

InitArtifact ==
    /\ jobs = <<>> /\ wk = <<>> /\ hist = <<>> /\ cf = Off /\ ix = Off /\ pr = Off
    /\ vtable = FALSE
    /\ st = [puts |-> 0, put |-> <<>>, files |-> <<>>, returned |-> <<>>, got |-> <<>>]

NextArtifact ==
    \/ \E m \in Manifests : PutOpen(m)
    \/ PutWrite
    \/ PutReturn
    \/ PutCrash
    \/ \E key \in ArtifactKeys : GetManifest(key)

SpecArtifact == InitArtifact /\ [][NextArtifact]_vars

(***************************************************************************)
(* The RabbitMQ backend (rag_core/db/rabbitmq_jobs.py): rows in Postgres,  *)
(* one message per enqueue or successful retry on a durable queue.         *)
(***************************************************************************)
MaxMqJobs == 2      \* jobs enqueued under SpecRabbit
MaxPublishes == 3   \* messages published under SpecRabbit
MaxGets == 3        \* messages fetch_and_start got under SpecRabbit

\* json.dumps({"job_id": job_id}) published to the queue.
Publish(q, j) == Append(q, j)

\* enqueue: the row is inserted by the Postgres repository, then its id is
\* published.
MqEnqueue ==
    /\ Len(jobs) < MaxMqJobs /\ st.published < MaxPublishes
    /\ jobs' = Append(jobs, NewRow("ingest", "ingest", TRUE))
    /\ st' = [st EXCEPT !.queue = Publish(@, Len(jobs) + 1),
                        !.published = @ + 1]
    /\ UNCHANGED <<wk, hist, vtable, cf, ix, pr>>

\* The mutant: the UPDATE has AND status='pending'.
MqStartRowPendingOnly(r) == IF r.status = "pending" THEN StartRow(r) ELSE r

\* fetch_and_start's UPDATE ... SET status='processing', started_at=NOW(),
\* attempts = attempts + 1 WHERE id=$1
MqStartRow(r) == StartRow(r)

\* fetch_and_start: q.get takes the message at the head of the queue, the
\* row of its job_id is updated, the message is kept in _pending and the
\* job is returned.  The channel is closed with the message unacknowledged:
\* the broker either puts the delivery back on the queue or not.
MqFetch(requeued) ==
    /\ st.queue # <<>> /\ st.gets < MaxGets
    /\ LET j == Head(st.queue) IN
        /\ jobs' = [jobs EXCEPT ![j] = MqStartRow(@)]
        /\ st' = [st EXCEPT !.queue = IF requeued THEN @ ELSE Tail(@),
                            !.pending = @ \cup {j},
                            !.running = @ \cup {j},
                            !.gets = @ + 1]
    /\ UNCHANGED <<wk, hist, vtable, cf, ix, pr>>

\* fetch_and_start on an empty queue: q.get(fail=False) gives None.
MqFetchNone ==
    /\ st.queue = <<>>
    /\ UNCHANGED vars

\* complete(id) by the process that got the job: the row, then the ack.
MqComplete(j) ==
    /\ j \in st.running
    /\ jobs' = [jobs EXCEPT ![j] = CompleteRow(@)]
    /\ st' = [st EXCEPT !.pending = @ \ {j}, !.running = @ \ {j}]
    /\ UNCHANGED <<wk, hist, vtable, cf, ix, pr>>

\* fail(id, error) by the process that got the job: the row, then the nack.
MqFail(j) ==
    /\ j \in st.running
    /\ jobs' = [jobs EXCEPT ![j] = FailRow(@, "error")]
    /\ st' = [st EXCEPT !.pending = @ \ {j}, !.running = @ \ {j}]
    /\ UNCHANGED <<wk, hist, vtable, cf, ix, pr>>

\* retry(id): when the Postgres retry matched the row, its id is published
\* again.
MqRetry(j) ==
    /\ RetryOk(jobs[j]) => st.published < MaxPublishes
    /\ jobs' = [jobs EXCEPT ![j] = RetryRow(@)]
    /\ st' = IF RetryOk(jobs[j])
             THEN [st EXCEPT !.queue = Publish(@, j), !.published = @ + 1]
             ELSE st
    /\ UNCHANGED <<wk, hist, vtable, cf, ix, pr>>

\* cancel(id): the Postgres cancel, then the message in _pending (if any) is
\* nacked; a message still on the queue stays there.
MqCancel(j) ==
    /\ jobs' = [jobs EXCEPT ![j] = CancelRow(@)]
    /\ st' = [st EXCEPT !.pending = @ \ {j}]
    /\ UNCHANGED <<wk, hist, vtable, cf, ix, pr>>

InitRabbit ==
    /\ jobs = <<>> /\ wk = <<>> /\ hist = <<>> /\ cf = Off /\ ix = Off /\ pr = Off
    /\ vtable = FALSE
    /\ st = [queue |-> <<>>, pending |-> {}, running |-> {},
             published |-> 0, gets |-> 0]

NextRabbit ==
    \/ MqEnqueue
    \/ \E requeued \in BOOLEAN : MqFetch(requeued)
    \/ MqFetchNone
    \/ \E j \in JobIds : MqComplete(j)
    \/ \E j \in JobIds : MqFail(j)
    \/ \E j \in JobIds : MqRetry(j)
    \/ \E j \in JobIds : MqCancel(j)

SpecRabbit == InitRabbit /\ [][NextRabbit]_vars

SpecConc == InitConc /\ [][Next]_vars

(***************************************************************************)
(* Properties of the job repository and the worker loop.                   *)
(***************************************************************************)
HasJob(w) == wk[w].pc \in {"loaded", "run", "returned"}

\* The worker is inside process_one for its job and has not returned yet.
Working(w) == wk[w].pc \in {"loaded", "run"}

\* C1: under any interleaving of concurrent fetch_and_start calls, a pending
\* job is returned by at most one call: two fetches never hold the same row,
\* and a job is returned at most once each time it became pending (a second
\* return needs a retry in between).
C1_FetchReturnsJobOnce ==
    /\ \A j \in JobIds : hist[j].since <= 1
    /\ \A w1, w2 \in Workers :
          (w1 # w2 /\ wk[w1].pc = "fetching" /\ wk[w2].pc = "fetching")
              => wk[w1].job # wk[w2].job

\* Two fetch_and_start calls are in flight at once, one of them on a job
\* that was returned before and has been retried since.
C1_Witness ==
    \E w1, w2 \in Workers :
        /\ w1 # w2 /\ wk[w1].pc = "fetching" /\ wk[w2].pc = "fetching"
        /\ hist[wk[w1].job].returns = 1 /\ hist[wk[w1].job].epoch = 2

LegalEdges ==
    {<<"pending", "processing">>, <<"processing", "completed">>,
     <<"processing", "failed">>, <<"pending", "canceled">>,
     <<"processing", "canceled">>, <<"failed", "pending">>,
     <<"canceled", "pending">>}

\* C2: under any sequence of repository operations a job's status changes
\* only along pending->processing, processing->completed, processing->failed,
\* pending|processing->canceled and failed|canceled->pending.
C2_OnlyLegalEdges ==
    [][\A j \in JobIds :
          \/ jobs'[j].status = jobs[j].status
          \/ <<jobs[j].status, jobs'[j].status>> \in LegalEdges]_vars

\* C3: once cancel(J) succeeded while a worker is processing J and the worker
\* has passed its next progress callback, the worker calls neither
\* update_progress(J) nor complete(J) nor fail(J); and when the worker is done
\* with J, J is still canceled with finished_at set and error "canceled".
C3_CancelInFlightAborts ==
    [][\A w \in Workers :
          /\ (Working(w) /\ hist[wk[w].job].cancelRun = 2)
                => ~(Progress(w) \/ Complete(w) \/ Fail(w))
          /\ (Working(w) /\ hist[wk[w].job].cancelRun = 2 /\ wk'[w].pc = "returned")
                => /\ jobs'[wk[w].job].status = "canceled"
                   /\ jobs'[wk[w].job].finished_at # NULL
                   /\ jobs'[wk[w].job].error = "canceled"]_vars

\* C4: complete(id) on a job whose status is not processing is a no-op: no
\* field of the job changes.
C4_CompleteNoOpUnlessProcessing ==
    [][\A w \in Workers :
          (Complete(w) /\ jobs[wk[w].job].status # "processing")
              => jobs'[wk[w].job] = jobs[wk[w].job]]_vars

\* C5: a worker serving queue type Q only receives from fetch_and_start jobs
\* that were enqueued through the repository of queue type Q.
C5_QueuePartitioning ==
    \A w \in Workers :
        HasJob(w) => jobs[wk[w].job].queue = WorkerQueueType(w)

\* C6: when process_one returns from a job that was never canceled, exactly
\* one of complete(id) or fail(id, error) was called on it and the job is not
\* left in status processing.
C6_EveryJobCompletedOrFailed ==
    \A w \in Workers :
        (wk[w].pc = "returned" /\ ~hist[wk[w].job].everCanceled)
            => /\ wk[w].calls = 1
               /\ jobs[wk[w].job].status # "processing"

(***************************************************************************)
(* Properties of the prune job.                                            *)
(***************************************************************************)
DeletedRows == pr.rows0 \ (pr.rows \cap pr.tx)

C8_EmptyScopeFails ==
    (pr.pc = "returned" /\ vtable /\ NoSelector(pr.scope))
        => /\ pr.job.status = "failed"
           /\ pr.job.error # NULL
           /\ pr.rows = pr.rows0

(***************************************************************************)
(* Properties of the indexer.                                              *)
(***************************************************************************)
\* C9: in index_items the checksum records of a batch are written only after
\* the vector-store write of the whole batch has returned: in every state,
\* crashes and exceptions included, a checksum row written by this pass
\* belongs to an item whose vector rows are written, all vectors of the batch
\* were written before the first checksum row, and a pass whose vector write
\* fails writes no checksum row.
C9_ChecksumsAfterVectors ==
    ix.mode = "index" =>
        /\ ix.csWritten \subseteq ix.vecWritten
        /\ ix.csWritten # {} => DocsOf(ix.to_index) \subseteq ix.vecWritten
        /\ ix.vfail => ix.csWritten = {}

\* An index_items pass has written vectors and then checksums.
C9_Witness ==
    /\ ix.mode = "index" /\ ix.pc = "returned"
    /\ ix.vecWritten # {} /\ ix.csWritten = ix.vecWritten

Returned == ix.mode = "index" /\ ix.pc = "returned"

ChecksumsStored ==
    \A i \in DOMAIN ix.items : Get(ix.cs, ix.items[i].doc_id) = ix.items[i].checksum

VectorsPresent ==
    \A i \in DOMAIN ix.items : ix.items[i].doc_id \in ix.vec

\* No doc_id comes with two different checksums in the input (the data
\* model: items with different content do not share a doc_id).
OneChecksumPerDocId ==
    \A i, j \in DOMAIN ix.items :
        ix.items[i].doc_id = ix.items[j].doc_id
            => ix.items[i].checksum = ix.items[j].checksum

\* C10 as stated: after index_items(items) returns without exception, for
\* every input item the checksum store maps its doc_id to its checksum and
\* the vector store has a row for its doc_id, for every prior content of the
\* checksum store (checksums written by update_checksums included) and for
\* both values of force. Stated for inputs that respect the data model.
C10_IndexedAndChecksummed ==
    (Returned /\ OneChecksumPerDocId) => (ChecksumsStored /\ VectorsPresent)

\* Every input item whose checksum is already stored has its vector row.
StoredImpliesVector ==
    \A i \in DOMAIN ix.items :
        Get(ix.cs0, ix.items[i].doc_id) = ix.items[i].checksum
            => ix.items[i].doc_id \in ix.vec0

\* C10 as amended: after index_items(items) returns without exception over
\* items that give no doc_id two different checksums, the checksum store maps
\* every input doc_id to its checksum; and the vector store has a row for
\* every input doc_id when force is true or when every input item whose
\* checksum was already stored had its vector row before the pass.
C10_Amended ==
    (Returned /\ OneChecksumPerDocId) =>
        /\ ChecksumsStored
        /\ (ix.force \/ StoredImpliesVector) => VectorsPresent

\* A non-forced pass over two items returned: one item was skipped because
\* its checksum was stored (its vector row exists), the other was indexed.
C10_Witness ==
    /\ Returned /\ ~ix.force /\ OneChecksumPerDocId /\ StoredImpliesVector
    /\ Len(ix.items) = 2 /\ Len(ix.to_index) = 1
    /\ ix.cs0 # EmptyMap

\* The index_items call of the pass has returned (the job may be completed).
IndexReturned == ix.mode = "index" /\ ix.pc \in {"returned", "completed"}

\* The pass repeats the items of the pass before it, which was a successful
\* index_items, with force=false.
Rerun == ix.rerun

C12_ForceWritesAll ==
    (ix.mode = "index" /\ ix.force) =>
        /\ IndexReturned =>
              /\ ix.to_index = ix.items
              /\ ix.vecWrites = Len(ix.items) /\ ix.csWrites = Len(ix.items)
              /\ ix.vecWritten = DocsOf(ix.items)
              /\ ix.csWritten = DocsOf(ix.items)
        /\ ix.pc = "completed" =>
              /\ ix.job.status = "completed"
              /\ ix.job.progress_total = Some(Len(ix.items))
              /\ ix.job.progress_done = Some(Len(ix.items))

\* A forced pass over two items is completed; the checksum of one of them was
\* already stored with that value.
C12_Witness ==
    /\ ix.mode = "index" /\ ix.force /\ ix.pc = "completed"
    /\ Len(ix.items) = 2
    /\ \E i \in DOMAIN ix.items :
          Get(ix.cs0, ix.items[i].doc_id) = ix.items[i].checksum

C14_FinishedAtIffTerminal ==
    \A j \in JobIds :
        (jobs[j].finished_at # NULL) <=> (jobs[j].status \in Terminal)

\* A job that was fetched and finished is pending again after a retry, and
\* its finished_at is cleared.
C14_Witness ==
    \E j \in JobIds :
        /\ jobs[j].status = "pending" /\ hist[j].epoch = 2
        /\ hist[j].returns = 1 /\ jobs[j].finished_at = NULL

\* C15 as stated: in every reachable state a job with attempts >= 1 has a
\* non-null started_at, also after it was failed or canceled and retried.
C15_StartedAtOnceProcessed ==
    \A j \in JobIds : jobs[j].attempts >= 1 => jobs[j].started_at # NULL

\* C15 as amended: started_at is non-null exactly when fetch_and_start has
\* returned the job since it was enqueued or last retried; retry clears it.
C15_Amended ==
    \A j \in JobIds : (jobs[j].started_at # NULL) <=> (hist[j].since >= 1)

\* A job that was processed is pending again after a retry.
C15_Witness ==
    \E j \in JobIds :
        /\ jobs[j].status = "pending" /\ jobs[j].attempts = 1
        /\ hist[j].epoch = 2 /\ jobs[j].started_at = NULL

\* The fields of a row that retry and cancel must leave alone.
Kept(r) ==
    <<r.tbl, r.queue, r.type, r.artifact, r.attempts,
      r.progress_done, r.progress_total, r.progress_note>>

\* C16: retry(id) succeeds iff the job exists with status failed or canceled;
\* then status is pending, started_at, finished_at and error are null, and
\* attempts, payload, type and the progress fields are as before, as is every
\* other job; otherwise (pending, processing, completed, unknown id) no field
\* of any job changes.
C16_RetryFrame ==
    [][\A j \in CommandIds :
          Retry(j) =>
              IF j \in JobIds /\ jobs[j].status \in {"failed", "canceled"}
              THEN /\ jobs'[j].status = "pending"
                   /\ jobs'[j].started_at = NULL
                   /\ jobs'[j].finished_at = NULL
                   /\ jobs'[j].error = NULL
                   /\ Kept(jobs'[j]) = Kept(jobs[j])
                   /\ \A i \in JobIds \ {j} : jobs'[i] = jobs[i]
              ELSE jobs' = jobs]_vars

\* A job that failed after progress was reported has been retried, with
\* another job in the table.
C16_Witness ==
    \E j \in JobIds :
        /\ jobs[j].status = "pending" /\ hist[j].epoch = 2
        /\ jobs[j].attempts = 1 /\ jobs[j].progress_note # NULL
        /\ Len(jobs) = 2

\* C17: cancel(id) succeeds iff the job exists with status pending or
\* processing; then status is canceled, finished_at is set, error is
\* "canceled" when it was null and as before otherwise, and nothing else
\* changes; otherwise (completed, failed, canceled, unknown id) no field of
\* any job changes.
C17_CancelFrame ==
    [][\A j \in CommandIds :
          Cancel(j) =>
              IF j \in JobIds /\ jobs[j].status \in {"pending", "processing"}
              THEN /\ jobs'[j].status = "canceled"
                   /\ jobs'[j].finished_at # NULL
                   /\ jobs'[j].error =
                         (IF jobs[j].error = NULL THEN "canceled"
                          ELSE jobs[j].error)
                   /\ jobs'[j].started_at = jobs[j].started_at
                   /\ Kept(jobs'[j]) = Kept(jobs[j])
                   /\ \A i \in JobIds \ {j} : jobs'[i] = jobs[i]
              ELSE jobs' = jobs]_vars

\* A processing job was canceled while another job is completed or failed.
C17_Witness ==
    \E j, i \in JobIds :
        /\ jobs[j].status = "canceled" /\ jobs[j].error = "canceled"
        /\ jobs[j].started_at # NULL /\ jobs[j].finished_at # NULL
        /\ jobs[i].status \in {"completed", "failed"}

\* C18: retry on a canceled job leaves it pending with finished_at and error
\* null; a pending job has them null until something else acts on it; and the
\* fetch_and_start that returns a job that was canceled and retried makes it
\* processing with attempts one greater than before that fetch.
C18_CancelRetryFetch ==
    [][/\ \A j \in JobIds :
             /\ (Retry(j) /\ jobs[j].status = "canceled")
                   => /\ jobs'[j].status = "pending"
                      /\ jobs'[j].finished_at = NULL
                      /\ jobs'[j].error = NULL
             /\ jobs[j].status = "pending"
                   => jobs[j].finished_at = NULL /\ jobs[j].error = NULL
       /\ \A w \in Workers :
             (/\ FetchCommit(w)
              /\ hist[wk[w].job].everCanceled /\ hist[wk[w].job].epoch >= 2)
                 => /\ jobs'[wk[w].job].status = "processing"
                    /\ jobs'[wk[w].job].attempts = jobs[wk[w].job].attempts + 1]_vars

\* enqueue; cancel; retry; fetch_and_start: the job's only fetch came after
\* the retry.
C18_Witness ==
    \E j \in JobIds :
        /\ jobs[j].status = "processing" /\ jobs[j].attempts = 1
        /\ hist[j].everCanceled /\ hist[j].epoch = 2 /\ hist[j].returns = 1

\* C19: each fetch_and_start that returns a job selects the pending job with
\* the smallest id among the pending jobs no other in-flight fetch has
\* locked (a retried job before any pending job with a larger id); and a
\* fetch that starts when no other fetch is in flight and no job was retried
\* selects a job whose id is below that of no job returned earlier.
C19_FifoPickup ==
    [][\A w \in Workers :
          FetchSelect(w) =>
              /\ jobs[wk'[w].job].status = "pending" /\ ~Locked(wk'[w].job)
              /\ \A i \in JobIds :
                    (jobs[i].status = "pending" /\ ~Locked(i)) => wk'[w].job <= i
              /\ (/\ \A v \in Workers : wk[v].pc # "fetching"
                  /\ \A i \in JobIds : hist[i].epoch = 1)
                    => \A i \in JobIds :
                          i > wk'[w].job => hist[i].returns = 0]_vars

\* A fetch has selected a retried job while a job with a larger id is
\* pending.
C19_Witness ==
    \E w \in Workers :
        /\ wk[w].pc = "fetching" /\ hist[wk[w].job].epoch = 2
        /\ \E i \in JobIds : i > wk[w].job /\ jobs[i].status = "pending"

\* Every worker's fetch_and_start has returned.
Settled == \A w \in Workers : wk[w].pc \in {"loaded", "none"}

JobsIn(status) == {j \in JobIds : jobs[j].status = status}

\* The ids the fetches returned.
ReturnedIds == {wk[w].job : w \in {v \in Workers : wk[v].pc = "loaded"}}

\* C20: N workers each call fetch_and_start once on a table holding M pending
\* jobs, in any interleaving; when every call has returned exactly min(N,M)
\* jobs are processing, they are the returned ids, no two calls returned the
\* same id, each was pending before (it has been fetched once, now), and the
\* other M - min(N,M) jobs are still pending.
C20_MinOfWorkersAndJobs ==
    Settled =>
        LET N == Cardinality(Workers)
            M == Cardinality(JobsIn("pending") \cup JobsIn("processing"))
        IN /\ Cardinality(JobsIn("processing")) = Min(N, M)
           /\ ReturnedIds = JobsIn("processing")
           /\ \A v, w \in Workers :
                 (v # w /\ wk[v].pc = "loaded" /\ wk[w].pc = "loaded")
                     => wk[v].job # wk[w].job
           /\ \A j \in ReturnedIds :
                 jobs[j].attempts = 1 /\ hist[j].returns = 1
           /\ Cardinality(JobsIn("pending")) = M - Min(N, M)
           /\ \A j \in JobsIn("pending") : jobs[j].attempts = 0

\* Every fetch has returned a job and a pending job is left over.
C20_Witness ==
    /\ Settled
    /\ \A w \in Workers : wk[w].pc = "loaded"
    /\ JobsIn("pending") # {}

\* The fields of a row that update_progress must leave alone.
NotProgress(r) ==
    <<r.tbl, r.queue, r.type, r.artifact, r.status, r.attempts, r.error,
      r.started_at, r.finished_at>>

\* C21: update_progress(id, done?, total?, note?) sets each of progress_done,
\* progress_total, progress_note whose argument is given and keeps each whose
\* argument is omitted; status, attempts, error, payload and the timestamps
\* stay as they are; with all three omitted nothing changes.
C21_UpdateProgressFrame ==
    [][\A j \in JobIds : \A p \in ProgressArgs :
          RepoProgress(j, p) =>
              /\ jobs'[j].progress_done =
                    (IF p.done = None THEN jobs[j].progress_done ELSE p.done)
              /\ jobs'[j].progress_total =
                    (IF p.total = None THEN jobs[j].progress_total ELSE p.total)
              /\ jobs'[j].progress_note =
                    (IF p.note = NULL THEN jobs[j].progress_note ELSE p.note)
              /\ NotProgress(jobs'[j]) = NotProgress(jobs[j])
              /\ (p.done = None /\ p.total = None /\ p.note = NULL)
                    => jobs' = jobs]_vars

\* A canceled job whose progress_done and progress_note were set by calls
\* that omitted total.
C21_Witness ==
    \E j \in JobIds :
        /\ jobs[j].status = "canceled"
        /\ jobs[j].progress_done = Some(1) /\ jobs[j].progress_total = None
        /\ jobs[j].progress_note = "completed"

\* The vector table exists and declares another dimension than configured.
DimMismatch ==
    vtable /\ ix.actual # None /\ ix.actual # Some(ix.expected)

\* C22: when at service startup the vector table exists with a declared
\* embedding dimension other than the configured embed_dim, the service
\* raises a fatal error: the instance never becomes usable, it performs no
\* vector or checksum write, and no job runs index_items on it.
C22_DimMismatchIsFatal ==
    DimMismatch =>
        /\ ix.pc \in {"startup", "fatal"}
        /\ ix.vecWrites = 0 /\ ix.csWrites = 0

(***************************************************************************)
(* Inline payloads.                                                        *)
(***************************************************************************)
\* The SourceSpec variants of the payload contract.
ContractTypes == {"github_repo", "github_repo_local", "github_org", "github_issues",
                  "local_dir", "web_url", "website", "sitemap"}

TagsOf(r) == {r.sources[i] : i \in DOMAIN r.sources}

UnknownTypeErrors == {"Unknown source type: " \o TypeOf(t) : t \in SourceTags}

\* C23: a payload whose sources hold a type tag of no SourceSpec variant is
\* rejected by enqueue: no job row carries such a payload.
C23_UnknownTagRejectedAtEnqueue ==
    \A j \in JobIds : \A t \in TagsOf(jobs[j]) : TypeOf(t) \in ContractTypes

\* C24: a job whose sources are all of SourceSpec types of the contract never
\* ends failed with an unknown-source-type error.
C24_ContractTypesMaterialize ==
    \A j \in JobIds :
        (TagsOf(jobs[j]) \subseteq ContractTypes /\ jobs[j].status = "failed")
            => jobs[j].error \notin UnknownTypeErrors

(***************************************************************************)
(* Dispatch by job type.                                                   *)
(***************************************************************************)
\* The stages a job in hand still has to report.
StagesAhead(w) == {wk[w].todo[i].stage : i \in DOMAIN wk[w].todo}

\* index_items reports "indexing" before from_documents and "indexed" after
\* upsert_many; update_checksums reports "checksums" before upsert_many; the
\* prune branch reports "prune" before its DELETE statements.
VectorUpsertStages == {"indexing", "indexed"}
ChecksumUpsertStages == {"indexed", "checksums"}
VectorDeleteStages == {"prune"}

\* C25: for both payload shapes a prune job runs only the prune engine (no
\* vector upsert, no checksum upsert), a checksum_update job neither writes
\* nor deletes vectors, and an ingest job deletes no vector row.
C25_DispatchByType ==
    \A w \in Workers :
        wk[w].pc = "run" =>
            LET t == jobs[wk[w].job].type IN
            /\ t = "prune" =>
                   StagesAhead(w) \cap (VectorUpsertStages \cup ChecksumUpsertStages) = {}
            /\ t = "checksum_update" =>
                   StagesAhead(w) \cap (VectorUpsertStages \cup VectorDeleteStages) = {}
            /\ t = "ingest" => StagesAhead(w) \cap VectorDeleteStages = {}

(***************************************************************************)
(* What a prune job deletes.                                               *)
(***************************************************************************)
\* id begins with pref, character by character.
BeginsWith(pref, id) ==
    /\ Len(pref) <= Len(id)
    /\ \A i \in 1..Len(pref) : pref[i] = id[i]

ManifestIds == {it.doc_id : it \in pr.manifest}

\* The rows the active selectors of the scope select among the prior rows:
\* metadata.repo in the list, metadata.repo among the manifest's repos,
\* node_id beginning with a prefix, node_id in the manifest.
SelectedRows ==
    {r \in pr.rows0 :
        \/ pr.scope.metadata_repo_in.present /\ r.repo \in pr.scope.metadata_repo_in.vals
        \/ /\ pr.scope.metadata_repo_from_manifest
           /\ \E it \in pr.manifest : it.repo # NULL /\ it.repo = r.repo
        \/ /\ pr.scope.doc_id_prefixes.present
           /\ \E pref \in pr.scope.doc_id_prefixes.vals : BeginsWith(pref, r.node_id)
        \/ pr.scope.doc_id_in_from_manifest /\ r.node_id \in ManifestIds}

\* candidate_set \ keep_set, as node ids
DeleteSet == {r.node_id : r \in SelectedRows} \ ManifestIds

\* C26: after a prune job completes, exactly the rows of candidate_set \
\* keep_set are deleted: a prior row is gone if its node_id is a candidate's
\* and is not in the manifest, and retained otherwise.
C26_PruneDeletesExactly ==
    (pr.pc = "returned" /\ pr.job.status = "completed")
        => pr.rows = {r \in pr.rows0 : r.node_id \notin DeleteSet}

(***************************************************************************)
(* The stages of a job.                                                    *)
(***************************************************************************)
\* The stage names of the progress calls a job in hand has yet to make.
StageSeq(w) == [i \in DOMAIN wk[w].todo |-> wk[w].todo[i].stage]

FixedStages(type) ==
    IF type = "ingest" THEN <<"scanning", "filtered", "indexing", "indexed", "done">>
    ELSE IF type = "checksum_update" THEN <<"checksums", "done">>
    ELSE <<"prune", "done">>

IsSuffix(s, t) ==
    /\ Len(s) <= Len(t)
    /\ SubSeq(t, Len(t) - Len(s) + 1, Len(t)) = s

\* C27: the stage names a job passes to the progress callback are exactly
\* the fixed sequence of its type, each stage once and in order: at every
\* point of a run the stages still to come are a tail of that sequence.
C27_FixedStageSequence ==
    \A w \in Workers :
        wk[w].pc = "run" => IsSuffix(StageSeq(w), FixedStages(jobs[wk[w].job].type))

(***************************************************************************)
(* The row of a job after its pass.                                        *)
(***************************************************************************)
\* An index_items pass with force=false found every one of its n >= 1 items
\* in the checksum map with the item's checksum, and process_one completed
\* the job.
NoChangeJobDone ==
    /\ ix.mode = "index" /\ ix.pc = "completed" /\ ~ix.force
    /\ ix.items # <<>>
    /\ \A i \in DOMAIN ix.items : Get(ix.existing, ix.items[i].doc_id) = ix.items[i].checksum

\* C28: an ingest job with force=false whose n items all match the stored
\* checksums ends completed with progress_total = n, progress_done = 0 and
\* progress_note = "no changes" in its row, and made no vector write and no
\* checksum write.
C28_NoChangeRow ==
    NoChangeJobDone =>
        /\ ix.job.status = "completed"
        /\ ix.job.progress_total = Some(Len(ix.items))
        /\ ix.job.progress_done = Some(0)
        /\ ix.job.progress_note = "no changes"
        /\ ix.vecWrites = 0 /\ ix.csWrites = 0

\* An index_items pass over an empty stream, completed by process_one.
EmptyStreamJobDone ==
    ix.mode = "index" /\ ix.pc = "completed" /\ ix.items = <<>>

\* C29: an ingest job whose source stream yields no items ends completed
\* with progress_total = 0 and makes no vector write and no checksum write.
C29_EmptyStream ==
    EmptyStreamJobDone =>
        /\ ix.job.status = "completed"
        /\ ix.job.progress_total = Some(0)
        /\ ix.vecWrites = 0 /\ ix.csWrites = 0
        /\ ix.vec = ix.vec0 /\ ix.cs = ix.cs0

\* A forced ingest job over an empty stream has completed on stores that an
\* earlier pass filled.
C29_Witness ==
    /\ EmptyStreamJobDone /\ ix.force
    /\ ix.cs # EmptyMap /\ ix.vec # {}

(***************************************************************************)
(* Checksum-update mode.                                                   *)
(***************************************************************************)
\* update_checksums(items) has returned.
ChecksumsReturned == ix.mode = "checksums" /\ ix.pc \in {"returned", "completed"}

\* The checksum of the last item of items with doc id d.
LastChecksum(items, d) ==
    LET last == CHOOSE i \in DOMAIN items :
                    /\ items[i].doc_id = d
                    /\ \A k \in DOMAIN items : k > i => items[k].doc_id # d
    IN items[last].checksum

\* C30: update_checksums(items) leaves checksum_store[i.doc_id] = i.checksum
\* for every input item, the last occurrence of a doc id winning, leaves the
\* checksum rows of other doc ids as they were, and at no point of the pass
\* writes or deletes a vector row.
C30_ChecksumsOnly ==
    /\ (ix.mode = "checksums" /\ ix.pass > 0) =>
           ix.vec = ix.vec0 /\ ix.vecWrites = 0
    /\ ChecksumsReturned =>
           /\ \A d \in DocsOf(ix.items) : Get(ix.cs, d) = LastChecksum(ix.items, d)
           /\ \A d \in Docs \ DocsOf(ix.items) : Get(ix.cs, d) = Get(ix.cs0, d)

\* update_checksums has returned from two items of one doc id with different
\* checksums, on stores holding vectors and the checksum of another doc id.
C30_Witness ==
    /\ ChecksumsReturned /\ Len(ix.items) = 2
    /\ ix.items[1].doc_id = ix.items[2].doc_id
    /\ ix.items[1].checksum # ix.items[2].checksum
    /\ ix.vec # {}
    /\ \E d \in Docs \ DocsOf(ix.items) : Get(ix.cs, d) # NULL

(***************************************************************************)
(* The chunking stage.                                                     *)
(***************************************************************************)
\* C31: every chunk c emitted for a parent p has parent_id = p.doc_id,
\* doc_id = p.doc_id + "#c" + chunk_index and 0 <= chunk_index < chunk_total;
\* chunk_total is one value on all chunks of p, the chunks come with indices
\* 0, 1, ... each once, and when the last is emitted their number is
\* chunk_total.
C31_ChunkIdentity ==
    st.wrapped =>
        /\ \A i \in DOMAIN st.out :
              LET c == st.out[i] IN
              /\ c.metadata["parent_id"] = st.item.doc_id
              /\ c.metadata["chunk_index"] = i - 1
              /\ c.doc_id = st.item.doc_id \o "#c" \o ToString(c.metadata["chunk_index"])
              /\ 0 <= c.metadata["chunk_index"]
              /\ c.metadata["chunk_index"] < c.metadata["chunk_total"]
              /\ c.metadata["chunk_total"] = st.out[1].metadata["chunk_total"]
        /\ (st.pc = "next" /\ st.parents > 0) =>
              /\ st.out # <<>>
              /\ Len(st.out) = st.out[1].metadata["chunk_total"]

\* A parent has been emitted in two chunks, its metadata having carried a
\* parent_id of its own.
C31_Witness ==
    /\ st.wrapped /\ st.pc = "next" /\ st.parents = 1
    /\ Len(st.out) = 2
    /\ "parent_id" \in DOMAIN st.item.metadata

\* Chunking is not needed for the item in hand: chunk_size is 0 (or absent),
\* or the text is no longer than chunk_size.
ChunkingNotNeeded ==
    \/ st.chunk_size = 0
    \/ st.chunk_size > 0 /\ Len(st.item.text) <= st.chunk_size

\* C32: whenever chunking is not needed the stage emits the source item
\* unchanged: one item with the same doc_id, text, metadata and checksum.
C32_UnchangedWhenNotNeeded ==
    (st.pc = "next" /\ st.parents > 0 /\ ChunkingNotNeeded) => st.out = <<st.item>>

(***************************************************************************)
(* Checksums of emitted items.                                             *)
(***************************************************************************)
\* C33: the checksum of every item an adapter emits is the SHA-256 of the
\* item's text, the same in every process and run, and an item whose text
\* is unchanged since it was last ingested is skipped by a non-forced ingest.
C33_ChecksumIsSha256 ==
    st.runs > 0 =>
        /\ st.last.item.checksum = Sha256(st.last.item.text)
        /\ st.last.unchanged => st.last.skipped

DeletedNotes == {"deleted " \o ToString(n) : n \in 1..Cardinality(DocIds)}

\* C35: each batch is deleted in a transaction of its own: when the job's
\* row reports "deleted n" the rows deleted so far are gone from the
\* committed table, and they stay deleted when a later statement fails.
C35_BatchPerTransaction ==
    pr.job.progress_note \in DeletedNotes =>
        /\ \A r \in pr.rows0 \ pr.tx : r \notin pr.rows
        /\ pr.job.status = "failed" => pr.rows # pr.rows0

C37_OneWorkerPerJob ==
    \A w1, w2 \in Workers :
        (w1 # w2 /\ Working(w1) /\ Working(w2)) => wk[w1].job # wk[w2].job

(***************************************************************************)
(* Progress columns.                                                       *)
(***************************************************************************)
\* C38: whenever progress_done and progress_total of a job are both set,
\* 0 <= progress_done <= progress_total.
C38_DoneWithinTotal ==
    \A j \in JobIds :
        (jobs[j].progress_done # None /\ jobs[j].progress_total # None)
            => /\ 0 <= jobs[j].progress_done[1]
               /\ jobs[j].progress_done[1] <= jobs[j].progress_total[1]

\* A retried job whose new run has reported "scanning" (done 0, no total)
\* over the total its previous run left in the row.
C38_Witness ==
    \E j \in JobIds :
        /\ hist[j].epoch >= 2 /\ jobs[j].status = "processing"
        /\ jobs[j].progress_note = "scanning items"
        /\ jobs[j].progress_done = Some(0)
        /\ jobs[j].progress_total = Some(MaxItems)

(***************************************************************************)
(* The web-URL prune.                                                      *)
(***************************************************************************)
\* prune_scope = {"doc_id_in_from_manifest": True}
OnlyDocIdInFromManifest(scope) ==
    /\ scope.doc_id_in_from_manifest
    /\ ~scope.metadata_repo_from_manifest
    /\ ~scope.metadata_repo_in.present
    /\ ~scope.doc_id_prefixes.present

\* C39: a prune job whose only selector is doc_id_in_from_manifest deletes
\* no row, whatever the manifest and the vector table hold: its candidates
\* are ids of the manifest, and nothing is left to delete.
C39_ManifestOnlyDeletesNothing ==
    OnlyDocIdInFromManifest(pr.scope) =>
        /\ DeletedRows = {}
        /\ pr.pc # "start" => (pr.cand \subseteq KeepIds(pr.manifest) /\ pr.total = 0)

\* Such a job has completed over a table holding a row of the manifest and
\* a row that is not in the manifest.
C39_Witness ==
    /\ OnlyDocIdInFromManifest(pr.scope)
    /\ pr.pc = "returned" /\ pr.job.status = "completed"
    /\ \E r \in pr.rows0 : r.node_id \in KeepIds(pr.manifest)
    /\ \E r \in pr.rows0 : r.node_id \notin KeepIds(pr.manifest)
    /\ pr.rows = pr.rows0

====
